---- MODULE Spec2Model ----
(***************************************************************************)
(* Vault certificate Prometheus exporter (vault_cert_exporter.py).         *)
(*                                                                         *)
(* Strings that end up in label values are modelled as sequences of        *)
(* one-character strings, so that escaping and truncation are computed     *)
(* character by character.  A metrics text is the sequence of its lines;   *)
(* the empty sequence is the empty string "".                              *)
(***************************************************************************)
EXTENDS Integers, Sequences, FiniteSets, TLC

VARIABLES
    phase,           \* "boot" before main() has run, then "serving" or "exited"
    token,           \* VaultClient.token
    warning_days,    \* CertificateMetrics.warning_days
    critical_days,   \* CertificateMetrics.critical_days
    cached_metrics,  \* MetricsHandler.cached_metrics
    last_scrape,     \* MetricsHandler.last_scrape
    clock,           \* latest reading of time.time()
    response,        \* what the last request was answered with
    calls,           \* Vault calls made by the last request, in order
    last,            \* the last request: its path, its current_time and what it did
    probe,           \* argument and result of the last direct call of a pure function
    handlers         \* per client: where its request stands and the handler's locals

vars == <<phase, token, warning_days, critical_days, cached_metrics, last_scrape,
          clock, response, calls, last, probe, handlers>>

-----------------------------------------------------------------------------
(* Python values *)

None == "<None>"

\* Python truthiness of a token: None and "" are falsy.
Truthy(tok) == tok \notin {None, ""}

\* dict.get(key, default)
Get(d, k, default) == IF k \in DOMAIN d THEN d[k] ELSE default

BS == "\\"
DQ == "\""
NL == "\n"

unknown == <<"u", "n", "k", "n", "o", "w", "n">>

\* A JSON number is [int |-> n]; a JSON string that int() cannot parse is [str |-> s].
JInt(n) == [int |-> n]
JStr(s) == [str |-> s]

\* int(v): the integer, or a ValueError.
IntRaises(v) == "int" \notin DOMAIN v
IntOf(v) == v.int

-----------------------------------------------------------------------------
(* CertificateMetrics *)

DefaultWarningDays == 30
DefaultCriticalDays == 7
SerialLabelLen == 16

RECURSIVE Replace(_, _, _)
\* str.replace(old, new) for a one-character old
Replace(s, old, new) ==
    IF s = <<>> THEN <<>>
    ELSE (IF Head(s) = old THEN new ELSE <<Head(s)>>) \o Replace(Tail(s), old, new)

_escape_label(value) ==
    Replace(Replace(Replace(value, BS, <<BS, BS>>), DQ, <<BS, DQ>>), NL, <<BS, "n">>)

\* A plausible slip: strict comparisons.
_determine_status_strict(days_until_expiry) ==
    IF days_until_expiry < 0 THEN "expired"
    ELSE IF days_until_expiry < critical_days THEN "critical"
    ELSE IF days_until_expiry < warning_days THEN "warning"
    ELSE "healthy"

\* A plausible slip: the warning test comes before the critical test.
_determine_status_warning_first(days_until_expiry) ==
    IF days_until_expiry <= 0 THEN "expired"
    ELSE IF days_until_expiry <= warning_days THEN "warning"
    ELSE IF days_until_expiry <= critical_days THEN "critical"
    ELSE "healthy"

\* A plausible slip: the expiry test comes after the critical test.
_determine_status_reordered(days_until_expiry) ==
    IF days_until_expiry <= critical_days THEN "critical"
    ELSE IF days_until_expiry <= 0 THEN "expired"
    ELSE IF days_until_expiry <= warning_days THEN "warning"
    ELSE "healthy"

_determine_status(days_until_expiry) ==
    IF days_until_expiry <= 0 THEN "expired"
    ELSE IF days_until_expiry <= critical_days THEN "critical"
    ELSE IF days_until_expiry <= warning_days THEN "warning"
    ELSE "healthy"

status_map == [healthy |-> 0, warning |-> 1, critical |-> 2, expired |-> 3]

_status_to_value(status) == Get(status_map, status, 0)

\* The status names as label values.
StatusChars ==
    [healthy  |-> <<"h", "e", "a", "l", "t", "h", "y">>,
     warning  |-> <<"w", "a", "r", "n", "i", "n", "g">>,
     critical |-> <<"c", "r", "i", "t", "i", "c", "a", "l">>,
     expired  |-> <<"e", "x", "p", "i", "r", "e", "d">>]

\* The order of the keys of status_counts (a dict keeps insertion order).
StatusOrder == <<"healthy", "warning", "critical", "expired">>

\* serial_number[:16]
SerialPrefix(serial_number) ==
    SubSeq(serial_number, 1,
           IF Len(serial_number) < SerialLabelLen THEN Len(serial_number) ELSE SerialLabelLen)

\* A plausible slip: the serial is escaped first and the escaped text is cut.
SerialLabelCutAfterEscape(serial_number) == SerialPrefix(_escape_label(serial_number))

\* _escape_label(serial_number[:16])
SerialLabel(serial_number) == _escape_label(SerialPrefix(serial_number))

\* The timestamps the inventory carries, and what
\* datetime.fromisoformat(s.replace('Z', '+00:00')).timestamp() makes of them.
IsoEpoch ==
    ("1970-01-01T00:01:00Z" :> 60) @@ ("1970-01-01T00:02:00+00:00" :> 120)

\* the try/except around the parse: 0 for an empty or unparsable string
ParseLastScanned(cert_info) ==
    LET last_scanned == Get(cert_info, "last_scanned", Get(cert_info, "last_issued", ""))
    IN  IF last_scanned = "" THEN 0
        ELSE IF last_scanned \in DOMAIN IsoEpoch THEN IsoEpoch[last_scanned]
        ELSE 0

\* Lines of the exposition text.
Help(name) == [kind |-> "help", name |-> name, labels |-> <<>>, value |-> 0]
Type(name) == [kind |-> "type", name |-> name, labels |-> <<>>, value |-> 0]
Sample(name, labels, value) ==
    [kind |-> "sample", name |-> name, labels |-> labels, value |-> value]

HeaderLines ==
    << Help("vault_certificate_days_until_expiry"),
       Type("vault_certificate_days_until_expiry"),
       Help("vault_certificate_renewal_needed"),
       Type("vault_certificate_renewal_needed"),
       Help("vault_certificate_status"),
       Type("vault_certificate_status"),
       Help("vault_certificate_last_scanned_timestamp"),
       Type("vault_certificate_last_scanned_timestamp") >>

\* The four lines of one certificate (first entry of the record).
CertLines(cert_data, cert_info) ==
    LET hostname == Get(cert_data, "hostname", unknown)
        cn == _escape_label(Get(cert_info, "common_name", unknown))
        serial == SerialLabel(Get(cert_info, "serial_number", unknown))
        days_until_expiry == IntOf(Get(cert_info, "days_until_expiry", JInt(0)))
        renewal_needed == IF Get(cert_info, "renewal_needed", FALSE) THEN 1 ELSE 0
        status == _determine_status(days_until_expiry)
        ts == ParseLastScanned(cert_info)
        labels == << <<"hostname", hostname>>, <<"cn", cn>>, <<"serial", serial>> >>
        status_labels ==
            << <<"hostname", hostname>>, <<"cn", cn>>, <<"status", StatusChars[status]>> >>
    IN  << Sample("vault_certificate_days_until_expiry", labels, days_until_expiry),
           Sample("vault_certificate_renewal_needed", labels, renewal_needed),
           Sample("vault_certificate_status", status_labels, _status_to_value(status)),
           Sample("vault_certificate_last_scanned_timestamp", labels, ts) >>

\* A plausible slip: the newest (last) entry of the record is rendered.
ProcessCertLastEntry(acc, cert_data) ==
    LET cert_list == Get(cert_data, "certificates", <<>>)
        cert_info == cert_list[Len(cert_list)]
        days == Get(cert_info, "days_until_expiry", JInt(0))
        status == _determine_status(IntOf(days))
    IN  IF acc.raised \/ cert_list = <<>> THEN acc
        ELSE IF IntRaises(days) THEN [acc EXCEPT !.raised = TRUE]
        ELSE [metrics |-> acc.metrics \o CertLines(cert_data, cert_info),
              status_counts |-> [acc.status_counts EXCEPT ![status] = @ + 1],
              raised |-> FALSE]

\* One iteration of the loop over certificates; acc is what the loop has
\* built: the lines, the counters, and whether an exception has been raised.
ProcessCert(acc, cert_data) ==
    LET cert_list == Get(cert_data, "certificates", <<>>)
        cert_info == cert_list[1]
        days == Get(cert_info, "days_until_expiry", JInt(0))
        status == _determine_status(IntOf(days))
    IN  IF acc.raised \/ cert_list = <<>> THEN acc
        ELSE IF IntRaises(days) THEN [acc EXCEPT !.raised = TRUE]
        ELSE [metrics |-> acc.metrics \o CertLines(cert_data, cert_info),
              status_counts |-> [acc.status_counts EXCEPT ![status] = @ + 1],
              raised |-> FALSE]

RECURSIVE ProcessAll(_, _)
ProcessAll(acc, certs) ==
    IF certs = <<>> THEN acc
    ELSE ProcessAll(ProcessCert(acc, Head(certs)), Tail(certs))

\* What vault_certificates_total is set to.
TotalOf(certs) == Len(certs)

SummaryLines(certs, status_counts, now) ==
    << Help("vault_certificates_total"),
       Type("vault_certificates_total"),
       Sample("vault_certificates_total", <<>>, TotalOf(certs)),
       Help("vault_certificates_by_status"),
       Type("vault_certificates_by_status") >>
    \o [i \in 1..Len(StatusOrder) |->
            Sample("vault_certificates_by_status",
                   << <<"status", StatusChars[StatusOrder[i]]>> >>,
                   status_counts[StatusOrder[i]])]
    \o << Help("vault_cert_exporter_last_scrape_timestamp"),
          Type("vault_cert_exporter_last_scrape_timestamp"),
          Sample("vault_cert_exporter_last_scrape_timestamp", <<>>, now) >>

\* generate(certificates), with now the value of int(time.time()) it reads:
\* the text, or an exception.
generate(certs, now) ==
    LET acc == ProcessAll([metrics |-> HeaderLines,
                           status_counts |-> [s \in DOMAIN status_map |-> 0],
                           raised |-> FALSE], certs)
    IN  IF acc.raised THEN [raised |-> TRUE, text |-> <<>>]
        ELSE [raised |-> FALSE,
              text |-> acc.metrics \o SummaryLines(certs, acc.status_counts, now)]

-----------------------------------------------------------------------------
(* VaultClient: each call is answered by Vault with one of the outcomes below *)

\* Exporter configuration (argparse defaults).
cache_duration == 60

MaxKeys == 2        \* inventory keys a listing may return

\* Times a request may read from time.time(): when the exporter starts, and
\* the seconds just before and at the end of a cache period.
RequestTimes == {0, cache_duration - 1, cache_duration}

\* Seconds a refresh may have spent in its Vault calls when generate() reads
\* the clock.
Elapsed == {0, 1}

\* The keys of the inventory, in the order a listing returns them.
Keys == <<"b", "a", "c", "d">>

vault_addr == "https://vault.example.com:8200"

\* get_certificate's result None (the call raised).
NoneValue == [none |-> TRUE]

\* The empty dict {}.
EmptyDict == [k \in {} |-> 0]

\* Inventory records Vault may hold under a key.
RecA ==
    [hostname |-> <<"a">>,
     certificates |->
        << [common_name |-> <<"a", ".", "x">>,
            serial_number |-> <<"A", "B">>,
            days_until_expiry |-> JInt(5),
            renewal_needed |-> TRUE] >>]

RecB == [hostname |-> <<"b">>, certificates |-> <<>>]

\* days_until_expiry is not a number: int() raises.
RecBad ==
    [hostname |-> <<"m">>,
     certificates |-> << [days_until_expiry |-> JStr("n/a")] >>]

ServedRecords == {RecA, RecB, RecBad}

\* POST auth/approle/login: an exception, or a response whose client_token
\* is a token or is empty (a login that still needs an MFA step).
AuthOutcomes ==
    {[failed |-> TRUE, client_token |-> ""]}
    \cup {[failed |-> FALSE, client_token |-> t] : t \in {"", "s.tok"}}

\* A call made with no usable token is rejected by Vault.
ListOutcomes(tok) ==
    {[failed |-> TRUE, keys |-> <<>>]}
    \cup (IF Truthy(tok)
          THEN {[failed |-> FALSE, keys |-> SubSeq(Keys, 1, n)] : n \in 0..MaxKeys}
          ELSE {})

FetchOutcomes(tok) ==
    {[failed |-> TRUE, data |-> EmptyDict]}
    \cup (IF Truthy(tok)
          THEN {[failed |-> FALSE, data |-> d] : d \in {EmptyDict} \cup ServedRecords}
          ELSE {})

\* A plausible slip: the except clause reports success.
authenticate_reports_success(tok, outcome) ==
    IF outcome.failed THEN [token |-> tok, ret |-> TRUE]
    ELSE [token |-> outcome.client_token, ret |-> TRUE]

\* authenticate(): the new token and the value returned
authenticate(tok, outcome) ==
    IF outcome.failed THEN [token |-> tok, ret |-> FALSE]
    ELSE [token |-> outcome.client_token, ret |-> TRUE]

\* A plausible slip: the failure of the listing call is not caught.
list_certificates_uncaught(outcome) ==
    [keys |-> outcome.keys, raised |-> outcome.failed]

\* list_certificates(): the keys, [] when the call failed.  Its except clause
\* catches every exception, so it never raises.
list_certificates(outcome) ==
    [keys |-> IF outcome.failed THEN <<>> ELSE outcome.keys, raised |-> FALSE]

\* get_certificate(hostname): the record, None when the call failed
get_certificate(outcome) ==
    IF outcome.failed THEN NoneValue ELSE outcome.data

\* `if cert_data:` -- neither None nor an empty dict
TruthyDict(cert_data) == cert_data # NoneValue /\ DOMAIN cert_data # {}

-----------------------------------------------------------------------------
(* MetricsHandler *)

NoResponse == [status |-> 0, content_type |-> "", text |-> <<>>, message |-> ""]

NoRequest ==
    [path |-> "", current_time |-> 0, refreshed |-> FALSE, rendered |-> FALSE,
     listing |-> [failed |-> FALSE, keys |-> <<>>], fetched |-> <<>>, certificates |-> <<>>]

NoProbe == [fn |-> ""]

Call(op, arg) == [op |-> op, arg |-> arg]

\* A plausible slip: every refresh authenticates.
NeedsAuthAlways(tok) == TRUE

\* `if not self.vault_client.token`
NeedsAuth(tok) == ~Truthy(tok)

\* A plausible slip: the freshness test uses <= .
UseCacheInclusive(current_time) ==
    current_time - last_scrape <= cache_duration /\ cached_metrics # <<>>

\* the cache test of serve_metrics
UseCache(current_time) ==
    current_time - last_scrape < cache_duration /\ cached_metrics # <<>>

\* A plausible slip: the loop stops at the first record it cannot fetch.
RECURSIVE CollectUntilFailure(_)
CollectUntilFailure(fetched) ==
    IF fetched = <<>> \/ ~TruthyDict(get_certificate(Head(fetched))) THEN <<>>
    ELSE <<get_certificate(Head(fetched))>> \o CollectUntilFailure(Tail(fetched))

\* the loop over hostnames: fetched[i] is Vault's answer for hostnames[i]
RECURSIVE Collect(_)
Collect(fetched) ==
    IF fetched = <<>> THEN <<>>
    ELSE LET cert_data == get_certificate(Head(fetched))
         IN  (IF TruthyDict(cert_data) THEN <<cert_data>> ELSE <<>>)
             \o Collect(Tail(fetched))

\* A plausible slip: the scrape time is stored before the text is generated.
CacheUpdateEarlyStamp(result, current_time) ==
    IF result.raised
    THEN [cached_metrics |-> cached_metrics, last_scrape |-> current_time]
    ELSE [cached_metrics |-> result.text, last_scrape |-> current_time]

\* the cache after generate() has returned result: the two assignments
\* follow it, so an exception leaves both fields alone
CacheUpdate(result, current_time) ==
    IF result.raised
    THEN [cached_metrics |-> cached_metrics, last_scrape |-> last_scrape]
    ELSE [cached_metrics |-> result.text, last_scrape |-> current_time]

Respond200(text) ==
    [status |-> 200, content_type |-> "text/plain; version=0.0.4", text |-> text,
     message |-> ""]

Respond500(e) ==
    [status |-> 500, content_type |-> "", text |-> <<>>, message |-> "Error: " \o e]

\* serve_metrics with the cache fresh
ServeCached(current_time) ==
    /\ response' = Respond200(cached_metrics)
    /\ calls' = <<>>
    /\ last' = [NoRequest EXCEPT !.path = "/metrics", !.current_time = current_time]
    /\ clock' = current_time
    /\ UNCHANGED <<token, cached_metrics, last_scrape>>

\* serve_metrics with the cache stale or empty.  auth, listing and fetched are
\* Vault's answers to the calls the refresh makes; elapsed is the time that
\* has passed when generate() reads the clock.
Refresh(current_time, auth, listing, fetched, elapsed) ==
    LET need_auth == NeedsAuth(token)
        authed == IF need_auth THEN authenticate(token, auth)
                  ELSE [token |-> token, ret |-> TRUE]
        auth_calls == IF need_auth THEN <<Call("authenticate", "")>> ELSE <<>>
        listed == list_certificates(listing)
        hostnames == listed.keys
        certificates == Collect(fetched)
        result == generate(certificates, current_time + elapsed)
        cache == CacheUpdate(result, current_time)
        req == [NoRequest EXCEPT !.path = "/metrics", !.current_time = current_time,
                                 !.refreshed = TRUE]
    IN  /\ clock' = current_time + elapsed
        /\ token' = authed.token
        /\ IF ~authed.ret
           THEN /\ response' = Respond500("Vault authentication failed")
                /\ calls' = auth_calls
                /\ last' = req
                /\ UNCHANGED <<cached_metrics, last_scrape>>
           ELSE IF listed.raised
           THEN /\ response' = Respond500("list failed")
                /\ calls' = auth_calls \o <<Call("list", "")>>
                /\ last' = [req EXCEPT !.listing = listing]
                /\ UNCHANGED <<cached_metrics, last_scrape>>
           ELSE /\ calls' = auth_calls \o <<Call("list", "")>>
                            \o [i \in 1..Len(hostnames) |-> Call("get", hostnames[i])]
                /\ last' = [req EXCEPT !.listing = listing, !.fetched = fetched,
                                       !.certificates = certificates, !.rendered = TRUE]
                /\ cached_metrics' = cache.cached_metrics
                /\ last_scrape' = cache.last_scrape
                /\ response' = IF result.raised
                               THEN Respond500("invalid literal for int()")
                               ELSE Respond200(result.text)

serve_metrics ==
    \E current_time \in RequestTimes :
        /\ current_time >= clock
        /\ IF UseCache(current_time)
           THEN ServeCached(current_time)
           ELSE \E auth \in (IF Truthy(token) THEN {CHOOSE o \in AuthOutcomes : TRUE}
                             ELSE AuthOutcomes),
                   elapsed \in Elapsed :
                    LET tok == IF Truthy(token) THEN token
                               ELSE authenticate(token, auth).token
                        reached == Truthy(token) \/ ~auth.failed
                    IN  \E listing \in (IF reached THEN ListOutcomes(tok)
                                        ELSE {CHOOSE o \in ListOutcomes(tok) : TRUE}) :
                            \E fetched \in [1..Len(list_certificates(listing).keys)
                                                -> FetchOutcomes(tok)] :
                                Refresh(current_time, auth, listing, fetched, elapsed)

\* A plausible slip: the health payload reports the clock, not the scrape time.
serve_health_reports_clock ==
    /\ response' = [status |-> 200, content_type |-> "application/json", text |-> <<>>,
                    message |-> "",
                    health |-> [status |-> "healthy", vault_addr |-> vault_addr,
                                last_scrape |-> clock,
                                cache_duration |-> cache_duration]]
    /\ calls' = <<>>
    /\ last' = [NoRequest EXCEPT !.path = "/health"]
    /\ UNCHANGED <<token, cached_metrics, last_scrape, clock>>

serve_health ==
    /\ response' = [status |-> 200, content_type |-> "application/json", text |-> <<>>,
                    message |-> "",
                    health |-> [status |-> "healthy", vault_addr |-> vault_addr,
                                last_scrape |-> last_scrape,
                                cache_duration |-> cache_duration]]
    /\ calls' = <<>>
    /\ last' = [NoRequest EXCEPT !.path = "/health"]
    /\ UNCHANGED <<token, cached_metrics, last_scrape, clock>>

not_found(path) ==
    /\ response' = [status |-> 404, content_type |-> "", text |-> <<>>,
                    message |-> "404 Not Found"]
    /\ calls' = <<>>
    /\ last' = [NoRequest EXCEPT !.path = path]
    /\ UNCHANGED <<token, cached_metrics, last_scrape, clock>>

Paths == {"/metrics", "/health", "/"}

MaxClients == 2
Clients == 1..MaxClients

\* a client with no request under way; the other fields are the locals of
\* serve_metrics
IdleHandler ==
    [pc |-> "idle", path |-> "", current_time |-> 0, hostnames |-> <<>>,
     certificates |-> <<>>, metrics |-> <<>>, error |-> ""]

NoHandlers == [c \in Clients |-> IdleHandler]

\* One request, handled to its end: HTTPServer serves requests one at a time.
do_GET(path) ==
    /\ phase = "serving"
    /\ IF path = "/metrics" THEN serve_metrics
       ELSE IF path = "/health" THEN serve_health
       ELSE not_found(path)
    /\ UNCHANGED <<phase, warning_days, critical_days, probe, handlers>>

\* main(): authenticate, then serve; a failed authentication ends the process.
main ==
    /\ phase = "boot"
    /\ \E outcome \in AuthOutcomes :
        LET authed == authenticate(token, outcome)
        IN  /\ token' = authed.token
            /\ phase' = IF authed.ret THEN "serving" ELSE "exited"
            /\ calls' = <<Call("authenticate", "")>>
    /\ UNCHANGED <<warning_days, critical_days, cached_metrics, last_scrape, clock,
                   response, last, probe, handlers>>

Init ==
    /\ phase = "boot"
    /\ token = None
    /\ warning_days = DefaultWarningDays
    /\ critical_days = DefaultCriticalDays
    /\ cached_metrics = <<>>
    /\ last_scrape = 0
    /\ clock = 0
    /\ response = NoResponse
    /\ calls = <<>>
    /\ last = NoRequest
    /\ probe = NoProbe
    /\ handlers = NoHandlers

Next == main \/ \E path \in Paths : do_GET(path)

Spec == Init /\ [][Next]_vars

-----------------------------------------------------------------------------
(* The same server, one statement at a time.  HTTPServer.serve_forever takes a
   connection from the listen queue, runs its handler to the end and only
   then takes the next one; connections made meanwhile wait in the queue. *)

\* the handler of client c is running
Active(c) == handlers[c].pc \notin {"idle", "queued"}

\* A plausible slip: ThreadingHTTPServer, one thread per connection.
CanAcceptThreaded(c) == TRUE

\* A plausible slip: health checks are answered on a thread of their own.
CanAcceptHealthAside(c) ==
    handlers[c].path = "/health" \/ \A d \in Clients : ~Active(d)

\* serve_forever: the next connection is taken when no handler is running
CanAccept(c) == \A d \in Clients : ~Active(d)

Goto(c, pc) == [handlers EXCEPT ![c].pc = pc]

HealthResponse ==
    [status |-> 200, content_type |-> "application/json", text |-> <<>>,
     message |-> "",
     health |-> [status |-> "healthy", vault_addr |-> vault_addr,
                 last_scrape |-> last_scrape, cache_duration |-> cache_duration]]

\* a client connects and sends its request
connect(c) ==
    /\ phase = "serving"
    /\ handlers[c].pc = "idle"
    /\ \E path \in Paths :
          handlers' = [handlers EXCEPT ![c] = [IdleHandler EXCEPT !.pc = "queued",
                                                                 !.path = path]]
    /\ UNCHANGED <<phase, token, warning_days, critical_days, cached_metrics,
                   last_scrape, clock, response, calls, last, probe>>

\* the server takes the connection and do_GET routes the request
accept(c) ==
    /\ handlers[c].pc = "queued"
    /\ CanAccept(c)
    /\ handlers' = Goto(c, IF handlers[c].path = "/metrics" THEN "serve_metrics"
                           ELSE IF handlers[c].path = "/health" THEN "serve_health"
                           ELSE "not_found")
    /\ UNCHANGED <<phase, token, warning_days, critical_days, cached_metrics,
                   last_scrape, clock, response, calls, last, probe>>

\* current_time = time.time() and the cache test
check_cache(c) ==
    /\ handlers[c].pc = "serve_metrics"
    /\ handlers' =
          [handlers EXCEPT ![c] =
              IF UseCache(clock)
              THEN [@ EXCEPT !.pc = "respond", !.current_time = clock,
                             !.metrics = cached_metrics]
              ELSE [@ EXCEPT !.pc = IF NeedsAuth(token) THEN "authenticate" ELSE "list",
                             !.current_time = clock]]
    /\ UNCHANGED <<phase, token, warning_days, critical_days, cached_metrics,
                   last_scrape, clock, response, calls, last, probe>>

\* self.vault_client.authenticate() inside serve_metrics
login(c) ==
    /\ handlers[c].pc = "authenticate"
    /\ \E outcome \in AuthOutcomes :
          LET authed == authenticate(token, outcome)
          IN  /\ token' = authed.token
              /\ handlers' =
                    IF authed.ret THEN Goto(c, "list")
                    ELSE [handlers EXCEPT ![c].pc = "fail",
                                          ![c].error = "Vault authentication failed"]
    /\ UNCHANGED <<phase, warning_days, critical_days, cached_metrics,
                   last_scrape, clock, response, calls, last, probe>>

\* hostnames = self.vault_client.list_certificates()
list(c) ==
    /\ handlers[c].pc = "list"
    /\ \E outcome \in ListOutcomes(token) :
          LET listed == list_certificates(outcome)
          IN  handlers' =
                IF listed.raised
                THEN [handlers EXCEPT ![c].pc = "fail", ![c].error = "list failed"]
                ELSE [handlers EXCEPT ![c].hostnames = listed.keys,
                                      ![c].pc = IF listed.keys = <<>> THEN "generate"
                                                ELSE "get"]
    /\ UNCHANGED <<phase, token, warning_days, critical_days, cached_metrics,
                   last_scrape, clock, response, calls, last, probe>>

\* one turn of the loop over hostnames
get(c) ==
    /\ handlers[c].pc = "get"
    /\ \E outcome \in FetchOutcomes(token) :
          handlers' =
            [handlers EXCEPT ![c].certificates = @ \o Collect(<<outcome>>),
                             ![c].hostnames = Tail(@),
                             ![c].pc = IF Tail(handlers[c].hostnames) = <<>>
                                       THEN "generate" ELSE "get"]
    /\ UNCHANGED <<phase, token, warning_days, critical_days, cached_metrics,
                   last_scrape, clock, response, calls, last, probe>>

\* metrics = self.metrics_generator.generate(certificates)
render_metrics(c) ==
    /\ handlers[c].pc = "generate"
    /\ LET result == generate(handlers[c].certificates, clock)
       IN  handlers' =
             IF result.raised
             THEN [handlers EXCEPT ![c].pc = "fail",
                                   ![c].error = "invalid literal for int()"]
             ELSE [handlers EXCEPT ![c].pc = "store_text", ![c].metrics = result.text]
    /\ UNCHANGED <<phase, token, warning_days, critical_days, cached_metrics,
                   last_scrape, clock, response, calls, last, probe>>

\* MetricsHandler.cached_metrics = metrics
store_text(c) ==
    /\ handlers[c].pc = "store_text"
    /\ cached_metrics' = handlers[c].metrics
    /\ handlers' = Goto(c, "store_stamp")
    /\ UNCHANGED <<phase, token, warning_days, critical_days,
                   last_scrape, clock, response, calls, last, probe>>

\* MetricsHandler.last_scrape = current_time
store_stamp(c) ==
    /\ handlers[c].pc = "store_stamp"
    /\ last_scrape' = handlers[c].current_time
    /\ handlers' = Goto(c, "respond")
    /\ UNCHANGED <<phase, token, warning_days, critical_days, cached_metrics,
                   clock, response, calls, last, probe>>

\* the 200 response of serve_metrics
respond(c) ==
    /\ handlers[c].pc = "respond"
    /\ response' = Respond200(handlers[c].metrics)
    /\ handlers' = [handlers EXCEPT ![c] = IdleHandler]
    /\ UNCHANGED <<phase, token, warning_days, critical_days, cached_metrics,
                   last_scrape, clock, calls, last, probe>>

\* the except clause of serve_metrics
fail(c) ==
    /\ handlers[c].pc = "fail"
    /\ response' = Respond500(handlers[c].error)
    /\ handlers' = [handlers EXCEPT ![c] = IdleHandler]
    /\ UNCHANGED <<phase, token, warning_days, critical_days, cached_metrics,
                   last_scrape, clock, calls, last, probe>>

\* serve_health, which reads last_scrape
health(c) ==
    /\ handlers[c].pc = "serve_health"
    /\ response' = HealthResponse
    /\ handlers' = [handlers EXCEPT ![c] = IdleHandler]
    /\ UNCHANGED <<phase, token, warning_days, critical_days, cached_metrics,
                   last_scrape, clock, calls, last, probe>>

\* any other path
reject(c) ==
    /\ handlers[c].pc = "not_found"
    /\ response' = [status |-> 404, content_type |-> "", text |-> <<>>,
                    message |-> "404 Not Found"]
    /\ handlers' = [handlers EXCEPT ![c] = IdleHandler]
    /\ UNCHANGED <<phase, token, warning_days, critical_days, cached_metrics,
                   last_scrape, clock, calls, last, probe>>

\* time passes
tick ==
    /\ phase = "serving"
    /\ \E t \in RequestTimes : t > clock /\ clock' = t
    /\ UNCHANGED <<phase, token, warning_days, critical_days, cached_metrics,
                   last_scrape, response, calls, last, probe, handlers>>

NextSteps ==
    \/ main
    \/ tick
    \/ \E c \in Clients :
          \/ connect(c)
          \/ accept(c)
          \/ check_cache(c)
          \/ login(c)
          \/ list(c)
          \/ get(c)
          \/ render_metrics(c)
          \/ store_text(c)
          \/ store_stamp(c)
          \/ respond(c)
          \/ fail(c)
          \/ health(c)
          \/ reject(c)

SpecSteps == Init /\ [][NextSteps]_vars

-----------------------------------------------------------------------------
(* Direct calls of the pure functions of CertificateMetrics *)

MaxThreshold == 2   \* thresholds are drawn from -MaxThreshold..MaxThreshold
MaxStrLen == 2      \* length of the strings drawn for label values
MaxRecords == 2     \* records in a sequence handed to generate()

\* Thresholds: around zero (non-positive ones included), and the defaults.
ThresholdValues ==
    (-MaxThreshold..MaxThreshold) \cup {DefaultCriticalDays, DefaultWarningDays}

\* Days until expiry: every value around a drawn threshold.
DaysValues ==
    (-(MaxThreshold + 1)..(MaxThreshold + 1))
    \cup {DefaultCriticalDays - 1, DefaultCriticalDays, DefaultCriticalDays + 1,
          DefaultWarningDays - 1, DefaultWarningDays, DefaultWarningDays + 1}

Alphabet == {"x", BS, DQ, NL}

LabelStrings == UNION {[1..n -> Alphabet] : n \in 0..MaxStrLen}

\* Serial numbers: a run of plain characters that ends around the 16th
\* character, followed by a drawn string.
Pad(k) == [i \in 1..k |-> "0"]
SerialStrings ==
    {Pad(k) \o t : k \in {0, SerialLabelLen - 2, SerialLabelLen - 1, SerialLabelLen},
                   t \in LabelStrings}

ScenarioSerial ==
    <<"A", "B", "C", "D", "E", "F", "0", "1", "2", "3", "4", "5", "6", "7", "8", "9",
      "X", "Y", "Z">>

ScenarioA ==
    [hostname |-> <<"a">>,
     certificates |->
        << [common_name |-> <<"a", ".", "e", "x", "a", "m", "p", "l", "e", ".", "c", "o", "m">>,
            serial_number |-> ScenarioSerial,
            days_until_expiry |-> JInt(5),
            renewal_needed |-> TRUE] >>]

\* two entries; the second one is expired
RecTwo ==
    [hostname |-> <<"t">>,
     fqdn |-> <<"t", ".", "x">>,
     certificates |->
        << [common_name |-> <<"t", "1">>,
            serial_number |-> <<"0", "1">>,
            days_until_expiry |-> JInt(31),
            renewal_needed |-> FALSE,
            last_scanned |-> "1970-01-01T00:01:00Z"],
           [common_name |-> <<"t", "2">>,
            serial_number |-> <<"0", "2">>,
            days_until_expiry |-> JInt(-1),
            renewal_needed |-> TRUE,
            last_scanned |-> "1970-01-01T00:02:00+00:00"] >>]

\* no key but the list of entries, and an entry with no key at all
RecBare == [certificates |-> << EmptyDict >>]

\* no list of entries
RecNoList == [hostname |-> <<"n">>]

RecDated(last_scanned) ==
    [hostname |-> <<"d">>,
     certificates |->
        << [common_name |-> <<"d">>,
            days_until_expiry |-> JInt(30),
            last_issued |-> "1970-01-01T00:02:00+00:00",
            last_scanned |-> last_scanned] >>]

RecLabelled(hostname, cn, serial) ==
    [hostname |-> hostname,
     certificates |->
        << [common_name |-> cn,
            serial_number |-> serial,
            days_until_expiry |-> JInt(8),
            renewal_needed |-> FALSE] >>]

RenderRecords == {ScenarioA, RecB, RecTwo, RecBare, RecNoList, RecBad, RecDated("not a date")}

RenderInputs ==
    UNION {[1..n -> RenderRecords] : n \in 0..MaxRecords}
    \cup {<<RecLabelled(h, cn, <<"0">>)>> : h \in LabelStrings, cn \in LabelStrings}
    \cup {<<RecLabelled(<<"h">>, <<"c">>, serial)>> : serial \in SerialStrings}

RenderNows == {0, 61}

\* The exporter before main() has run.
Booting ==
    /\ phase = "boot"
    /\ token = None
    /\ cached_metrics = <<>>
    /\ last_scrape = 0
    /\ clock = 0
    /\ response = NoResponse
    /\ calls = <<>>
    /\ last = NoRequest
    /\ handlers = NoHandlers

server_vars == <<phase, token, cached_metrics, last_scrape, clock, response, calls, last,
                 handlers>>

InitClassify ==
    /\ Booting
    /\ warning_days \in ThresholdValues
    /\ critical_days \in ThresholdValues
    /\ probe \in {[fn |-> "args", d1 |-> d1, d2 |-> d2] : d1 \in DaysValues, d2 \in DaysValues}

\* _determine_status and _status_to_value applied to two values
classify ==
    /\ probe.fn = "args"
    /\ probe' = [fn |-> "classify", d1 |-> probe.d1, d2 |-> probe.d2,
                 s1 |-> _determine_status(probe.d1),
                 s2 |-> _determine_status(probe.d2),
                 v1 |-> _status_to_value(_determine_status(probe.d1)),
                 v2 |-> _status_to_value(_determine_status(probe.d2))]
    /\ UNCHANGED <<server_vars, warning_days, critical_days>>

NextClassify == classify

SpecClassify == InitClassify /\ [][NextClassify]_vars

InitRender ==
    /\ Booting
    /\ warning_days = DefaultWarningDays
    /\ critical_days = DefaultCriticalDays
    /\ probe \in {[fn |-> "args", certificates |-> c, now |-> n] :
                    c \in RenderInputs, n \in RenderNows}

\* generate applied to a sequence of records
render ==
    /\ probe.fn = "args"
    /\ LET result == generate(probe.certificates, probe.now)
       IN  probe' = [fn |-> "generate", certificates |-> probe.certificates,
                     now |-> probe.now, raised |-> result.raised, text |-> result.text]
    /\ UNCHANGED <<server_vars, warning_days, critical_days>>

NextRender == render

SpecRender == InitRender /\ [][NextRender]_vars

-----------------------------------------------------------------------------
(* Reading a metrics text *)

Range(f) == {f[i] : i \in DOMAIN f}

Samples(text, name) == SelectSeq(text, LAMBDA l : l.kind = "sample" /\ l.name = name)

TotalValue(text) == Samples(text, "vault_certificates_total")[1].value

ByStatusValue(text, status) ==
    SelectSeq(Samples(text, "vault_certificates_by_status"),
              LAMBDA l : l.labels[1][2] = StatusChars[status])[1].value

LabelOf(line, key) ==
    line.labels[CHOOSE i \in DOMAIN line.labels : line.labels[i][1] = key][2]

\* A label value that can stand between double quotes: every backslash
\* starts one of the escapes \\ \" \n, and there is no other quote or newline.
RECURSIVE WellEscaped(_)
WellEscaped(v) ==
    IF v = <<>> THEN TRUE
    ELSE IF Head(v) = BS
         THEN Len(v) >= 2 /\ v[2] \in {BS, DQ, "n"} /\ WellEscaped(SubSeq(v, 3, Len(v)))
         ELSE Head(v) \notin {DQ, NL} /\ WellEscaped(Tail(v))

\* What a parser of the exposition format reads from a well-escaped value.
RECURSIVE Unescape(_)
Unescape(v) ==
    IF v = <<>> THEN <<>>
    ELSE IF Head(v) = BS
         THEN <<IF v[2] = "n" THEN NL ELSE v[2]>> \o Unescape(SubSeq(v, 3, Len(v)))
         ELSE <<Head(v)>> \o Unescape(Tail(v))

IsEscapeOf(label, raw) == WellEscaped(label) /\ Unescape(label) = raw

Specials(v) == Cardinality({i \in DOMAIN v : v[i] \in {BS, DQ, NL}})

\* A record generate() makes lines for, and one it cannot render.
Processed(cert_data) == Get(cert_data, "certificates", <<>>) # <<>>
Malformed(cert_data) ==
    /\ Processed(cert_data)
    /\ "int" \notin DOMAIN Get(cert_data.certificates[1], "days_until_expiry", [int |-> 0])

NumProcessed(certs) == Cardinality({i \in DOMAIN certs : Processed(certs[i])})

\* The records a loop over the fetched answers must keep.
Fetched(answers) ==
    LET ok == SelectSeq(answers, LAMBDA o : ~o.failed /\ DOMAIN o.data # {})
    IN  [i \in 1..Len(ok) |-> ok[i].data]

MetricsRequest(l) == l.path = "/metrics"

\* A refresh that did not produce a text.
RefreshFailed(l) ==
    /\ l.refreshed
    /\ \/ ~l.rendered
       \/ \E i \in DOMAIN l.certificates : Malformed(l.certificates[i])

-----------------------------------------------------------------------------
(* C1: a /metrics request at time now refreshes exactly when no snapshot is held
   or now - last_scrape >= cache_duration; otherwise it answers with the cached
   text, makes no Vault call and leaves the cache alone.  A refresh that
   succeeds has listed the inventory and stored its text with the time now. *)
C1_RefreshExactlyWhenStale ==
    [][ MetricsRequest(last') =>
          LET now == last'.current_time
              stale == cached_metrics = <<>> \/ now - last_scrape >= cache_duration
          IN  /\ last'.refreshed <=> stale
              /\ ~stale => /\ response'.status = 200
                           /\ response'.text = cached_metrics
                           /\ calls' = <<>>
                           /\ cached_metrics' = cached_metrics
                           /\ last_scrape' = last_scrape
              /\ (stale /\ response'.status = 200) =>
                           /\ Call("list", "") \in Range(calls')
                           /\ cached_metrics' = response'.text
                           /\ last_scrape' = now ]_vars

\* a request at t = 59 answered with the text cached at t = 0
C1_Witness ==
    /\ MetricsRequest(last)
    /\ ~last.refreshed
    /\ last.current_time = cache_duration - 1
    /\ last_scrape = 0
    /\ response.text = cached_metrics
    /\ cached_metrics # <<>>

(* C2: the status is chosen by first match (d <= 0 expired, d <= critical_days
   critical, d <= warning_days warning, else healthy), and its gauge value is
   0, 1, 2, 3 for healthy, warning, critical, expired. *)
FirstMatch(d, s, v) ==
    /\ s \in {"healthy", "warning", "critical", "expired"}
    /\ (s = "expired") <=> d <= 0
    /\ (s = "critical") <=> (d > 0 /\ d <= critical_days)
    /\ (s = "warning") <=> (d > 0 /\ d > critical_days /\ d <= warning_days)
    /\ (s = "healthy") <=> (d > 0 /\ d > critical_days /\ d > warning_days)
    /\ v = CASE s = "healthy" -> 0 [] s = "warning" -> 1
             [] s = "critical" -> 2 [] s = "expired" -> 3

C2_ClassifyFirstMatch ==
    probe.fn = "classify" =>
        FirstMatch(probe.d1, probe.s1, probe.v1) /\ FirstMatch(probe.d2, probe.s2, probe.v2)

\* inverted thresholds: a value above warning_days that is still critical
C2_Witness ==
    /\ probe.fn = "classify"
    /\ critical_days > warning_days
    /\ probe.d1 > warning_days
    /\ probe.s1 = "critical"
    /\ probe.v1 = 2

(* C3 as claimed: 0 is expired, critical_days is critical, warning_days is
   warning, warning_days + 1 is healthy. *)
Boundaries(d, s) ==
    /\ d = 0 => s = "expired"
    /\ d = critical_days => s = "critical"
    /\ d = warning_days => s = "warning"
    /\ d = warning_days + 1 => s = "healthy"

C3_BoundariesAsClaimed ==
    probe.fn = "classify" => Boundaries(probe.d1, probe.s1)

(* C3 as amended: 0 is expired; critical_days is critical exactly when it is
   positive; warning_days is warning exactly when it is positive and above
   critical_days; warning_days + 1 is healthy exactly when warning_days is
   neither negative nor below critical_days. *)
BoundariesAmended(d, s) ==
    /\ d = 0 => s = "expired"
    /\ d = critical_days => (s = "critical" <=> critical_days > 0)
    /\ d = warning_days =>
            (s = "warning" <=> (warning_days > 0 /\ warning_days > critical_days))
    /\ d = warning_days + 1 =>
            (s = "healthy" <=> (warning_days >= 0 /\ warning_days >= critical_days))

C3_BoundariesAmended ==
    probe.fn = "classify" =>
        BoundariesAmended(probe.d1, probe.s1) /\ BoundariesAmended(probe.d2, probe.s2)

\* the default thresholds, at critical_days and at warning_days + 1
C3_Witness ==
    /\ probe.fn = "classify"
    /\ critical_days = DefaultCriticalDays
    /\ warning_days = DefaultWarningDays
    /\ probe.d1 = critical_days
    /\ probe.s1 = "critical"
    /\ probe.d2 = warning_days + 1
    /\ probe.s2 = "healthy"

(* C4: for every pair of thresholds, fewer days never give a lower severity. *)
C4_ClassifyMonotonic ==
    probe.fn = "classify" => (probe.d1 <= probe.d2 => probe.v1 >= probe.v2)

\* inverted, non-positive thresholds and two values of different severity
C4_Witness ==
    /\ probe.fn = "classify"
    /\ critical_days > warning_days
    /\ warning_days <= 0
    /\ probe.d1 < probe.d2
    /\ probe.v1 > probe.v2

(* Reading the lines generate() made for one record of its input *)

\* The four lines of the i-th record of certs, which is a processed one.
LinesOfRecord(text, certs, i) ==
    LET k == NumProcessed(SubSeq(certs, 1, i))
    IN  SubSeq(text, Len(HeaderLines) + 4 * (k - 1) + 1, Len(HeaderLines) + 4 * k)

FirstEntry(cert_data) == cert_data.certificates[1]

Rendered == probe.fn = "generate" /\ ~probe.raised

(* C5: vault_certificates_total is the number of processed records, those with
   a non-empty list of entries, and so is the sum of the by-status counts. *)
C5_TotalCountsProcessedRecords ==
    (MetricsRequest(last) /\ last.rendered /\ response.status = 200) =>
        /\ TotalValue(response.text) = NumProcessed(last.certificates)
        /\ ByStatusValue(response.text, "healthy") + ByStatusValue(response.text, "warning")
           + ByStatusValue(response.text, "critical") + ByStatusValue(response.text, "expired")
           = NumProcessed(last.certificates)

(* C6: in every per-certificate line the hostname, cn and serial label values
   are escaped forms of their input strings: well-escaped, and read back as
   the input. *)
C6_LabelValuesEscaped ==
    Rendered =>
        \A i \in DOMAIN probe.certificates :
            Processed(probe.certificates[i]) =>
                LET rec == probe.certificates[i]
                    lines == LinesOfRecord(probe.text, probe.certificates, i)
                IN  \A j \in DOMAIN lines :
                        /\ IsEscapeOf(LabelOf(lines[j], "hostname"),
                                      Get(rec, "hostname", unknown))
                        /\ IsEscapeOf(LabelOf(lines[j], "cn"),
                                      Get(FirstEntry(rec), "common_name", unknown))
                        /\ j # 3 => WellEscaped(LabelOf(lines[j], "serial"))

(* C7 as claimed: the serial label has exactly 16 characters when the serial
   number is longer than 16 characters, and is the serial number otherwise. *)
SerialLabelsOf(i) ==
    LET lines == LinesOfRecord(probe.text, probe.certificates, i)
    IN  {LabelOf(lines[j], "serial") : j \in {1, 2, 4}}

C7_SerialLabelAsClaimed ==
    Rendered =>
        \A i \in DOMAIN probe.certificates :
            Processed(probe.certificates[i]) =>
                LET raw == Get(FirstEntry(probe.certificates[i]), "serial_number", unknown)
                IN  \A label \in SerialLabelsOf(i) :
                        /\ Len(raw) > SerialLabelLen => Len(label) = SerialLabelLen
                        /\ Len(raw) <= SerialLabelLen => label = raw

(* C7 as amended: the serial label is the escaped form of the first 16
   characters of the serial number (of all of it when it has 16 or fewer):
   it reads back as those characters, and is one character longer than them for
   each backslash, double quote or newline among them. *)
C7_SerialLabelAmended ==
    Rendered =>
        \A i \in DOMAIN probe.certificates :
            Processed(probe.certificates[i]) =>
                LET raw == Get(FirstEntry(probe.certificates[i]), "serial_number", unknown)
                    n == IF Len(raw) > SerialLabelLen THEN SerialLabelLen ELSE Len(raw)
                    first == [k \in 1..n |-> raw[k]]
                IN  \A label \in SerialLabelsOf(i) :
                        /\ IsEscapeOf(label, first)
                        /\ Len(label) = n + Specials(first)

\* a serial number of 17 characters whose 16th is a double quote
C7_Witness ==
    /\ Rendered
    /\ Len(probe.certificates) = 1
    /\ Processed(probe.certificates[1])
    /\ LET raw == Get(FirstEntry(probe.certificates[1]), "serial_number", unknown)
       IN  /\ Len(raw) = SerialLabelLen + 1
           /\ raw[SerialLabelLen] = DQ
           /\ \A label \in SerialLabelsOf(1) : Len(label) = SerialLabelLen + 1

(* C8: a refresh that fails is answered 500 with an error message and no
   metrics text, and leaves cached_metrics and last_scrape as they were. *)
C8_FailedRefreshKeepsCache ==
    [][ (MetricsRequest(last') /\ RefreshFailed(last')) =>
          /\ response'.status = 500
          /\ response'.message # ""
          /\ response'.text = <<>>
          /\ cached_metrics' = cached_metrics
          /\ last_scrape' = last_scrape ]_vars

\* a refresh failed while a snapshot was cached
C8_Witness ==
    /\ MetricsRequest(last)
    /\ RefreshFailed(last)
    /\ response.status = 500
    /\ cached_metrics # <<>>
    /\ last.current_time - last_scrape >= cache_duration

(* C9: a listing that fails is zero entries: no record is fetched, the text
   has a total of 0 and four by-status counts of 0, it is served with status
   200 and it is the cached text, stamped with the time of the request. *)
C9_ListFailureIsEmptyInventory ==
    (MetricsRequest(last) /\ last.listing.failed) =>
        /\ Call("list", "") \in Range(calls)
        /\ \A i \in DOMAIN calls : calls[i].op # "get"
        /\ response.status = 200
        /\ TotalValue(response.text) = 0
        /\ \A s \in DOMAIN status_map : ByStatusValue(response.text, s) = 0
        /\ cached_metrics = response.text
        /\ last_scrape = last.current_time

\* the listing failed at the end of a cache period, when a snapshot was held
C9_Witness ==
    /\ MetricsRequest(last)
    /\ last.listing.failed
    /\ response.status = 200
    /\ last.current_time = cache_duration
    /\ last_scrape = cache_duration
    /\ TotalValue(cached_metrics) = 0

(* C10: every listed key is fetched once, in list order; the records handed
   to generate() are the fetched ones that are neither None nor empty, in list
   order; and unless one of those cannot be rendered the request is answered
   200 and the cache holds its text and time, whichever fetches failed. *)
C10_FetchFailuresAreSkipped ==
    (MetricsRequest(last) /\ last.rendered) =>
        LET keys == IF last.listing.failed THEN <<>> ELSE last.listing.keys
            gets == SelectSeq(calls, LAMBDA c : c.op = "get")
        IN  /\ Len(gets) = Len(keys)
            /\ \A i \in DOMAIN keys : gets[i].arg = keys[i]
            /\ Len(last.fetched) = Len(keys)
            /\ last.certificates = Fetched(last.fetched)
            /\ (\A i \in DOMAIN last.certificates : ~Malformed(last.certificates[i])) =>
                    /\ response.status = 200
                    /\ cached_metrics = response.text
                    /\ last_scrape = last.current_time

\* the first of two fetches failed and the second record was rendered
C10_Witness ==
    /\ MetricsRequest(last)
    /\ last.rendered
    /\ Len(last.fetched) = 2
    /\ last.fetched[1].failed
    /\ ~last.fetched[2].failed
    /\ Len(last.certificates) = 1
    /\ response.status = 200
    /\ TotalValue(cached_metrics) = 1

(* C13: the vault_cert_exporter_last_scrape_timestamp of a rendered snapshot
   is the current_time of the request that made it, the time the cache stores
   for it. *)
ScrapeStamp(text) == Samples(text, "vault_cert_exporter_last_scrape_timestamp")[1].value

C13_ScrapeStampIsRequestTime ==
    (MetricsRequest(last) /\ last.refreshed /\ response.status = 200) =>
        /\ ScrapeStamp(response.text) = last.current_time
        /\ ScrapeStamp(cached_metrics) = last_scrape

(* C14: while a token is held no request authenticates and the token stays
   what it is, whatever the listing and the fetches answer; a refresh lists
   once and the exporter keeps serving. *)
C14_HeldTokenIsNeverRenewed ==
    [][ (phase = "serving" /\ token \notin {None, ""}) =>
          /\ token' = token
          /\ phase' = "serving"
          /\ \A i \in DOMAIN calls' : calls'[i].op # "authenticate"
          /\ Cardinality({i \in DOMAIN calls' : calls'[i].op = "list"}) <= 1 ]_vars

\* with a token held, the listing failed and only the listing was called
C14_Witness ==
    /\ MetricsRequest(last)
    /\ last.refreshed
    /\ last.listing.failed
    /\ token = "s.tok"
    /\ calls = <<Call("list", "")>>
    /\ last.current_time = cache_duration

(* C15: at startup a failed authenticate ends the process and no request is
   served.  While serving with no token, a /metrics request that misses the
   cache authenticates first; if that fails the token stays absent, the
   request is answered 500 and the exporter keeps serving; if it succeeds the
   request lists, fetches and renders, and caches what it rendered. *)
C15_AuthFailureIsRecoverable ==
    [][ /\ (phase = "boot" /\ phase' # "boot") => (phase' = "exited" <=> token' = None)
        /\ phase' = "exited" => (response' = NoResponse /\ last' = NoRequest)
        /\ (phase = "serving" /\ token \in {None, ""}
             /\ MetricsRequest(last') /\ last'.refreshed) =>
              /\ calls' # <<>>
              /\ calls'[1].op = "authenticate"
              /\ phase' = "serving"
              /\ Len(calls') = 1 =>
                    /\ token' = token
                    /\ response'.status = 500
                    /\ ~last'.rendered
              /\ Len(calls') > 1 =>
                    /\ calls'[2].op = "list"
                    /\ last'.rendered
                    /\ ~RefreshFailed(last') =>
                          /\ response'.status = 200
                          /\ cached_metrics' = response'.text
                          /\ last_scrape' = last'.current_time ]_vars

\* a request after startup that authenticated, fetched a record and cached it
C15_Witness ==
    /\ MetricsRequest(last)
    /\ last.refreshed
    /\ last.current_time > 0
    /\ calls # <<>>
    /\ calls[1].op = "authenticate"
    /\ token = "s.tok"
    /\ response.status = 200
    /\ TotalValue(cached_metrics) >= 1
    /\ last_scrape = last.current_time

(* C16: only the first entry of a record is used.  A processed record gives
   four lines (days until expiry, renewal needed, status, last scanned) whose
   values come from its first entry, and adds one to one by-status counter;
   records come in input order; and the text is the same whatever the second
   and later entries are. *)
FirstOnly(certs) ==
    [i \in DOMAIN certs |->
        IF Processed(certs[i])
        THEN [certs[i] EXCEPT !.certificates = <<@[1]>>]
        ELSE certs[i]]

WithSecond(certs, entry) ==
    [i \in DOMAIN certs |->
        IF Processed(certs[i])
        THEN [certs[i] EXCEPT !.certificates = <<@[1], entry>>]
        ELSE certs[i]]

OtherEntries ==
    {[days_until_expiry |-> [str |-> "n/a"]],
     [common_name |-> <<"o">>, serial_number |-> <<"9">>,
      days_until_expiry |-> [int |-> 0], renewal_needed |-> TRUE,
      last_scanned |-> "1970-01-01T00:02:00+00:00"]}

FourLinesFromFirstEntry(lines, rec) ==
    LET first == FirstEntry(rec)
        days == Get(first, "days_until_expiry", [int |-> 0]).int
    IN  /\ Len(lines) = 4
        /\ \A j \in 1..4 : lines[j].kind = "sample"
        /\ lines[1].name = "vault_certificate_days_until_expiry"
        /\ lines[2].name = "vault_certificate_renewal_needed"
        /\ lines[3].name = "vault_certificate_status"
        /\ lines[4].name = "vault_certificate_last_scanned_timestamp"
        /\ lines[1].value = days
        /\ lines[2].value = (IF Get(first, "renewal_needed", FALSE) THEN 1 ELSE 0)
        /\ lines[3].value =
              (IF days <= 0 THEN 3 ELSE IF days <= critical_days THEN 2
               ELSE IF days <= warning_days THEN 1 ELSE 0)
        /\ \A j \in 1..4 : LabelOf(lines[j], "hostname") = Get(rec, "hostname", unknown)
        /\ \A j \in 1..4 : Unescape(LabelOf(lines[j], "cn"))
                            = Get(first, "common_name", unknown)

C16_OnlyFirstEntryIsUsed ==
    Rendered =>
        LET certs == probe.certificates
            text == probe.text
        IN  /\ \A i \in DOMAIN certs :
                  Processed(certs[i]) =>
                      FourLinesFromFirstEntry(LinesOfRecord(text, certs, i), certs[i])
            /\ Len(SelectSeq(text, LAMBDA l : Len(l.labels) = 3)) = 4 * NumProcessed(certs)
            /\ ByStatusValue(text, "healthy") + ByStatusValue(text, "warning")
               + ByStatusValue(text, "critical") + ByStatusValue(text, "expired")
               = NumProcessed(certs)
            /\ generate(FirstOnly(certs), probe.now).text = text
            /\ \A e \in OtherEntries : generate(WithSecond(certs, e), probe.now).text = text

\* a two-entry record after a one-entry record, rendered from its first entry
C16_Witness ==
    /\ Rendered
    /\ Len(probe.certificates) = 2
    /\ probe.certificates[1] = ScenarioA
    /\ probe.certificates[2] = RecTwo
    /\ LinesOfRecord(probe.text, probe.certificates, 2)[1].value = 31
    /\ ByStatusValue(probe.text, "healthy") = 1
    /\ ByStatusValue(probe.text, "expired") = 0

(* C17: a non-empty cached snapshot implies that a token is held. *)
C17_SnapshotImpliesToken ==
    cached_metrics # <<>> => token \notin {None, ""}

(* C18: a request for /health or for an unknown path makes no Vault call and
   leaves the cached text, its time and the token as they are, stale cache or
   not; the health payload carries the last_scrape and cache_duration held. *)
C18_OtherPathsTouchNothing ==
    [][ (phase = "serving" /\ last'.path \in {"/health", "/"}) =>
          /\ calls' = <<>>
          /\ cached_metrics' = cached_metrics
          /\ last_scrape' = last_scrape
          /\ token' = token
          /\ last'.path = "/" => response'.status = 404
          /\ last'.path = "/health" =>
                /\ response'.status = 200
                /\ response'.health.last_scrape = last_scrape
                /\ response'.health.cache_duration = cache_duration ]_vars

\* a health request while the cached snapshot is a cache period old
C18_Witness ==
    /\ last.path = "/health"
    /\ cached_metrics # <<>>
    /\ clock - last_scrape >= cache_duration
    /\ response.status = 200
    /\ response.health.last_scrape = 0
    /\ token = "s.tok"

(* C11: at most one refresh runs at a time: while a handler is between its
   cache test and its cache update, making its Vault calls, every other
   request has either not arrived or is waiting in the queue; no other
   handler runs, so none makes a Vault call of its own meanwhile. *)
RefreshPcs == {"authenticate", "list", "get", "generate", "store_text", "store_stamp"}

Refreshing(c) == handlers[c].pc \in RefreshPcs

C11_OneRefreshAtATime ==
    \A c \in Clients :
        Refreshing(c) => \A d \in Clients \ {c} : ~Active(d)

\* a refresh fetching its records while another /metrics request waits
C11_Witness ==
    \E c, d \in Clients :
        /\ c # d
        /\ handlers[c].pc = "get"
        /\ handlers[c].certificates # <<>>
        /\ handlers[d].pc = "queued"
        /\ handlers[d].path = "/metrics"

(* C12: the cached text and its time are never seen half replaced: no handler
   reads them (the cache test of serve_metrics, the payload of serve_health)
   while another stands between the two assignments, and when a handler
   stores the time, the text it stored is still the cached one. *)
Torn == \E c \in Clients : handlers[c].pc = "store_stamp"

Observes(c) ==
    /\ handlers[c].pc \in {"serve_metrics", "serve_health"}
    /\ handlers'[c].pc # handlers[c].pc

C12_SnapshotPairIsNeverTorn ==
    [][ \A c \in Clients :
          /\ Observes(c) => ~Torn
          /\ (handlers[c].pc = "store_stamp" /\ handlers'[c].pc = "respond") =>
                /\ cached_metrics' = handlers[c].metrics
                /\ last_scrape' = handlers[c].current_time ]_vars

\* the new text is stored, its time is not, and a health request waits
C12_Witness ==
    \E c, d \in Clients :
        /\ handlers[c].pc = "store_stamp"
        /\ cached_metrics = handlers[c].metrics
        /\ last_scrape # handlers[c].current_time
        /\ handlers[d].pc = "queued"
        /\ handlers[d].path = "/health"

====
